---- MODULE Spec2Model ----
(***************************************************************************)
(* A model of the grid geometry core of sark_grids: GridRect and its      *)
(* double-ended cell iterator, and the shape rasterizers (line,            *)
(* orthogonal line, filled circle, circle outline, cone, diamond).         *)
(*                                                                         *)
(* IVec2 values are pairs <<x, y>>.  A GridRect is a record                *)
(* [xy |-> <<x, y>>, size |-> <<w, h>>].  f32 values that the code         *)
(* computes from small integers are modelled by exact integer arithmetic;  *)
(* the one non-finite value the code produces (0.0 / 0.0 = NaN) is         *)
(* modelled explicitly.                                                    *)
(***************************************************************************)
EXTENDS Integers, Sequences, FiniteSets, TLC

VARIABLES
    shape,            \* the shape value the iterator was built from
    iter,             \* the fields of the iterator under enumeration
    out,              \* cells returned by next(), in call order
    outBack,          \* cells returned by next_back(), in call order
    ret,              \* what the latest next()/next_back() call returned
    after,            \* calls made after the first None
    ga,               \* geometry: the rect an operation is applied to
    gb,               \* geometry: the second rect argument
    gop,              \* geometry: the operation applied last
    gres              \* geometry: what that operation returned

vars == <<shape, iter, out, outBack, ret, after, ga, gb, gop, gres>>

iterVars == <<shape, iter, out, outBack, ret, after>>
geomVars == <<ga, gb, gop, gres>>

(***************************************************************************)
(* Bounds of the model.                                                    *)
(***************************************************************************)
MaxPos == 1        \* rect positions range over -MaxPos..MaxPos per axis
MaxSize == 4       \* rect widths and heights range over 0..MaxSize
MaxAfter == 2      \* calls modelled after an iterator first returned None
MaxLine == 2       \* line end points range over -MaxLine..MaxLine per axis
MaxRadius == 2     \* circle and diamond radii range over 0..MaxRadius
MaxRange == 2      \* cone direction vectors range over -MaxRange..MaxRange
MaxPairSize == 3   \* widths and heights of the rects of a pair: 0..MaxPairSize
MaxEnvSize == 2    \* widths and heights of the rects of an envelope: 0..MaxEnvSize
MaxCalls == 2      \* envelope calls made on one rect

Pos == (-MaxPos)..MaxPos
Points == Pos \X Pos
Sizes == (0..MaxSize) \X (0..MaxSize)

(***************************************************************************)
(* Integer and IVec2 helpers (glam).                                       *)
(***************************************************************************)
Abs(a) == IF a < 0 THEN -a ELSE a
Min2(a, b) == IF a < b THEN a ELSE b
Max2(a, b) == IF a > b THEN a ELSE b
Signum(a) == IF a > 0 THEN 1 ELSE IF a < 0 THEN -1 ELSE 0
\* Rust's integer division truncates toward zero.
TruncDiv(a, b) == IF a >= 0 THEN a \div b ELSE -((-a) \div b)

VAdd(p, q) == <<p[1] + q[1], p[2] + q[2]>>
VSub(p, q) == <<p[1] - q[1], p[2] - q[2]>>
VMin(p, q) == <<Min2(p[1], q[1]), Min2(p[2], q[2])>>
VMax(p, q) == <<Max2(p[1], q[1]), Max2(p[2], q[2])>>
VAbs(p) == <<Abs(p[1]), Abs(p[2])>>
VSignum(p) == <<Signum(p[1]), Signum(p[2])>>
VScale(p, k) == <<p[1] * k, p[2] * k>>

SeqToSet(s) == {s[i] : i \in 1..Len(s)}
NoDup(s) == \A i, j \in 1..Len(s) : s[i] = s[j] => i = j
Reverse(s) == [i \in 1..Len(s) |-> s[Len(s) + 1 - i]]

(***************************************************************************)
(* Option<IVec2>, plus the two outcomes that are not a return value.       *)
(***************************************************************************)
Start == [tag |-> "Start", val |-> <<>>]
None == [tag |-> "None", val |-> <<>>]
Some(p) == [tag |-> "Some", val |-> p]
Panic == [tag |-> "Panic", val |-> <<>>]

(***************************************************************************)
(* GridRect                                                                *)
(***************************************************************************)
GridRect(xy, size) == [xy |-> xy, size |-> size]

rect_min(r) == r.xy
rect_max(r) == <<r.xy[1] + (r.size[1] - 1), r.xy[2] + (r.size[2] - 1)>>
width(r) == r.size[1]
height(r) == r.size[2]

from_points(a, b) ==
    LET min == VMin(a, b)
        max == VMax(a, b)
    IN  GridRect(min, VAdd(VSub(max, min), <<1, 1>>))

\* from_center_size with the half extent (size - 1) / 2 of from_pivot_pos.
from_center_size_half_extent(center, size) ==
    GridRect(VSub(center, <<TruncDiv(size[1] - 1, 2), TruncDiv(size[2] - 1, 2)>>),
             size)

from_center_size(center, size) ==
    GridRect(VSub(center, <<TruncDiv(size[1], 2), TruncDiv(size[2], 2)>>), size)

from_pivot_pos(pivot, pos, size) ==
    LET x == pos[1]
        y == pos[2]
        w == size[1] - 1
        h == size[2] - 1
        bottom_left ==
            CASE pivot = "TopLeft" -> <<x, y - h>>
              [] pivot = "TopRight" -> <<x - w, y - h>>
              [] pivot = "Center" -> <<x - TruncDiv(w, 2), y - TruncDiv(h, 2)>>
              [] pivot = "BottomLeft" -> <<x, y>>
              [] pivot = "BottomRight" -> <<x - w, y>>
        top_right ==
            CASE pivot = "TopLeft" -> <<x + w, y>>
              [] pivot = "TopRight" -> <<x, y>>
              [] pivot = "Center" -> <<bottom_left[1] + w, bottom_left[2] + h>>
              [] pivot = "BottomLeft" -> <<x + w, y + h>>
              [] pivot = "BottomRight" -> <<x, y + h>>
    IN  from_points(bottom_left, top_right)

center_origin(size) == from_center_size(<<0, 0>>, size)

center(r) == VAdd(r.xy, <<TruncDiv(r.size[1], 2), TruncDiv(r.size[2], 2)>>)

\* contains with the max corner excluded.
contains_below_max(r, p) ==
    ~(   (p[1] < rect_min(r)[1] \/ p[2] < rect_min(r)[2])
      \/ (p[1] >= rect_max(r)[1] \/ p[2] >= rect_max(r)[2]))

contains(r, p) ==
    ~(   (p[1] < rect_min(r)[1] \/ p[2] < rect_min(r)[2])
      \/ (p[1] > rect_max(r)[1] \/ p[2] > rect_max(r)[2]))

clipped(a, clipper) ==
    LET bmin == rect_min(clipper)
        bmax == rect_max(clipper)
        amin == rect_min(a)
        amax == rect_max(a)
        max == VMin(amax, bmax)
        min == VMax(amin, bmin)
    IN  from_points(min, max)

\* overlaps with the signed distance of the centers in place of the absolute.
overlaps_signed(a, other) ==
    LET ac == center(a)
        bc == center(other)
    IN  /\ 2 * (ac[1] - bc[1]) <= a.size[1] + other.size[1]
        /\ 2 * (ac[2] - bc[2]) <= a.size[2] + other.size[2]

\* |ac - bc| <= size_a / 2.0 + size_b / 2.0 on both axes, in f32; both sides
\* are doubled here.  The centers are the integer centers of center().
overlaps(a, other) ==
    LET ac == center(a)
        bc == center(other)
    IN  /\ 2 * Abs(ac[1] - bc[1]) <= a.size[1] + other.size[1]
        /\ 2 * Abs(ac[2] - bc[2]) <= a.size[2] + other.size[2]

envelope_point(r, point) ==
    LET min == VMin(rect_min(r), point)
        max == VMax(rect_max(r), point)
    IN  from_points(min, max)

envelope_rect(r, rect) ==
    envelope_point(envelope_point(r, rect_min(rect)), rect_max(rect))

\* Order is BottomLeft, TopLeft, TopRight, BottomRight.
corners(r) ==
    LET min == rect_min(r)
        max == rect_max(r)
    IN  <<min, <<min[1], max[2]>>, max, <<max[1], min[2]>>>>

Pivots == {"TopLeft", "TopRight", "Center", "BottomLeft", "BottomRight"}

pivot_point(r, pivot) ==
    LET min == rect_min(r)
        max == rect_max(r)
    IN  CASE pivot = "TopLeft" -> <<min[1], max[2]>>
          [] pivot = "TopRight" -> <<max[1], max[2]>>
          [] pivot = "Center" -> center(r)
          [] pivot = "BottomLeft" -> <<min[1], min[2]>>
          [] pivot = "BottomRight" -> <<max[1], max[2]>>

(***************************************************************************)
(* GridRectIter: head and tail are offsets from origin.                    *)
(***************************************************************************)
GridRectIter_new(rect) ==
    [kind |-> "Rect",
     origin |-> rect.xy,
     size |-> rect.size,
     head |-> <<0, 0>>,
     tail |-> <<rect.size[1] - 1, rect.size[2] - 1>>]

\* Iterator::next: the returned value and the iterator afterwards.
GridRectIter_next(it) ==
    LET head == it.head
        tail == it.tail
    IN  IF head[2] > tail[2] \/ (head[2] = tail[2] /\ head[1] > tail[1])
        THEN [ret |-> None, it |-> it]
        ELSE LET x == head[1] + 1
                 h == IF x >= it.size[1] THEN <<0, head[2] + 1>>
                                         ELSE <<x, head[2]>>
             IN  [ret |-> Some(VAdd(it.origin, head)),
                  it |-> [it EXCEPT !.head = h]]

\* next_back with the cursors compared by row only.
GridRectIter_next_back_rows_only(it) ==
    LET head == it.head
        tail == it.tail
    IN  IF tail[2] < head[2]
        THEN [ret |-> None, it |-> it]
        ELSE LET x == tail[1] - 1
                 t == IF x < 0 THEN <<it.size[1] - 1, tail[2] - 1>>
                               ELSE <<x, tail[2]>>
             IN  [ret |-> Some(VAdd(it.origin, tail)),
                  it |-> [it EXCEPT !.tail = t]]

\* next_back with the column wrapped to the last row index.
GridRectIter_next_back_wrap_to_height(it) ==
    LET head == it.head
        tail == it.tail
    IN  IF tail[2] < head[2] \/ (tail[2] = head[2] /\ tail[1] < head[1])
        THEN [ret |-> None, it |-> it]
        ELSE LET x == tail[1] - 1
                 t == IF x < 0 THEN <<it.size[2] - 1, tail[2] - 1>>
                               ELSE <<x, tail[2]>>
             IN  [ret |-> Some(VAdd(it.origin, tail)),
                  it |-> [it EXCEPT !.tail = t]]

\* DoubleEndedIterator::next_back.
GridRectIter_next_back(it) ==
    LET head == it.head
        tail == it.tail
    IN  IF tail[2] < head[2] \/ (tail[2] = head[2] /\ tail[1] < head[1])
        THEN [ret |-> None, it |-> it]
        ELSE LET x == tail[1] - 1
                 t == IF x < 0 THEN <<it.size[1] - 1, tail[2] - 1>>
                               ELSE <<x, tail[2]>>
             IN  [ret |-> Some(VAdd(it.origin, tail)),
                  it |-> [it EXCEPT !.tail = t]]

\* Iterator::size_hint: (rem, Some(rem)); rem is cast to usize, so a negative
\* count wraps around the machine word.
size_hint(it) ==
    LET size == it.size
        head == it.head
        tail == VSub(<<size[1] - 1, size[2] - 1>>, it.tail)
        head_count == size[1] * head[2] + head[1]
        tail_count == size[1] * tail[2] + tail[1]
        rem == size[1] * size[2] - (head_count + tail_count)
    IN  IF rem >= 0 THEN rem ELSE rem + 2^16

\* The cells a rect iterator yields when drained with next() alone.
RECURSIVE DrainRect(_)
DrainRect(it) ==
    LET r == GridRectIter_next(it)
    IN  IF r.ret.tag = "Some" THEN <<r.ret.val>> \o DrainRect(r.it) ELSE <<>>

\* GridRect::iter().collect()
rect_iter(r) == DrainRect(GridRectIter_new(r))

\* The cells of a rect: every p with min <= p <= max on both axes.
CellsOf(r) ==
    (rect_min(r)[1]..rect_max(r)[1]) \X (rect_min(r)[2]..rect_max(r)[2])

(***************************************************************************)
(* Iterator adapters of the standard library, by their contract on the     *)
(* sequence an exact-size, double-ended iterator yields.                   *)
(***************************************************************************)
SeqSkip(s, n) == SubSeq(s, n + 1, Len(s))
SeqTake(s, n) == SubSeq(s, 1, Min2(n, Len(s)))
SeqStepBy(s, k) == [i \in 1..((Len(s) + k - 1) \div k) |-> s[(i - 1) * k + 1]]

\* usize subtraction (std::ops::Sub): a build with overflow checks panics on
\* underflow, a build without wraps around.  The machine word is modelled
\* 16 bits wide, which exceeds every length in the model.
UsizeUnderflow(a, b) == a < b
usize_sub(a, b) == IF a >= b THEN a - b ELSE a - b + 2^16

\* top() and right(): index of the last row / column.
rect_top(r) == usize_sub(height(r), 1)
rect_right(r) == usize_sub(width(r), 1)

iter_col(r, col) == SeqStepBy(SeqSkip(rect_iter(r), col), width(r))

iter_row(r, row) == SeqTake(SeqSkip(rect_iter(r), row * width(r)), width(r))

Ok(cells) == [tag |-> "Ok", cells |-> cells]
Panicked == [tag |-> "Panic", cells |-> <<>>]

\* iter_border with the bottom row walked left to right.
iter_border_bottom_forward(r, checks) ==
    IF checks /\ UsizeUnderflow(width(r), 2)
    THEN Panicked
    ELSE LET n == usize_sub(width(r), 2)
             left == iter_col(r, 0)
             top == SeqTake(SeqSkip(iter_row(r, rect_top(r)), 1), n)
             right == Reverse(iter_col(r, rect_right(r)))
             bottom == SeqTake(SeqSkip(iter_row(r, 0), 1), n)
         IN  Ok(left \o top \o right \o bottom)

\* iter_border().collect() on a rect with width, height >= 1; checks tells
\* whether the build has overflow checks (a debug build) or not.
iter_border(r, checks) ==
    IF checks /\ UsizeUnderflow(width(r), 2)
    THEN Panicked
    ELSE LET n == usize_sub(width(r), 2)
             left == iter_col(r, 0)
             top == SeqTake(SeqSkip(iter_row(r, rect_top(r)), 1), n)
             right == Reverse(iter_col(r, rect_right(r)))
             bottom == SeqTake(SeqSkip(Reverse(iter_row(r, 0)), 1), n)
         IN  Ok(left \o top \o right \o bottom)

(***************************************************************************)
(* GridLine.  t = step / dist is an f32; lerp_pos is computed here on the  *)
(* fraction step / dist.  With dist = 0 the quotient 0.0 / 0.0 is NaN,     *)
(* lerp and round keep it NaN, and the cast `NaN as i32` gives 0.          *)
(***************************************************************************)
\* f32::round of num / den (den > 0): nearest integer, halves away from zero.
RoundDiv(num, den) ==
    IF num >= 0 THEN (2 * num + den) \div (2 * den)
                ELSE -((2 * (-num) + den) \div (2 * den))

diag_distance(p1, p2) == Max2(Abs(p2[1] - p1[1]), Abs(p2[2] - p1[2]))

\* glam: p1 + (p2 - p1) * t, rounded, cast to i32.
lerp_pos(p1, p2, step, dist) ==
    IF dist = 0
    THEN <<0, 0>>
    ELSE <<RoundDiv(p1[1] * dist + (p2[1] - p1[1]) * step, dist),
           RoundDiv(p1[2] * dist + (p2[2] - p1[2]) * step, dist)>>

GridLineIter_new(start, end) ==
    [kind |-> "Line",
     start |-> start,
     end |-> end,
     step |-> 0,
     dist |-> diag_distance(start, end)]

GridLineIter_next(it) ==
    IF it.step > it.dist
    THEN [ret |-> None, it |-> it]
    ELSE [ret |-> Some(lerp_pos(it.start, it.end, it.step, it.dist)),
          it |-> [it EXCEPT !.step = it.step + 1]]

(***************************************************************************)
(* GridLineOrtho.  next_dir compares (0.5 + i.x) / n.x with                *)
(* (0.5 + i.y) / n.y in f32; a zero divisor gives an infinity with the     *)
(* sign of the dividend (which is never zero).  a stands for twice the     *)
(* dividend, 2 * i + 1.                                                    *)
(***************************************************************************)
QuotLess(ax, nx, ay, ny) ==
    IF nx = 0 /\ ny = 0 THEN ax < 0 /\ ay > 0
    ELSE IF nx = 0 THEN ax < 0
    ELSE IF ny = 0 THEN ay > 0
    ELSE ax * ny < ay * nx

next_dir(i, n, sign) ==
    IF QuotLess(2 * i[1] + 1, n[1], 2 * i[2] + 1, n[2])
    THEN <<sign[1], 0>>
    ELSE <<0, sign[2]>>

GridLineOrthoIter_new(start, end) ==
    LET d == VSub(end, start)
        n == VAbs(d)
        sign == VSignum(d)
        first == next_dir(<<0, 0>>, n, sign)
    IN  [kind |-> "LineOrtho",
         n |-> n,
         p |-> VSub(start, first),
         i |-> VScale(VAbs(first), -1),
         sign |-> sign]

GridLineOrthoIter_next(it) ==
    LET dir == next_dir(it.i, it.n, it.sign)
        i == VAdd(it.i, VAbs(dir))
    IN  IF i[1] > it.n[1] \/ i[2] > it.n[2]
        THEN [ret |-> None, it |-> [it EXCEPT !.i = i]]
        ELSE [ret |-> Some(VAdd(it.p, dir)),
              it |-> [it EXCEPT !.i = i, !.p = VAdd(it.p, dir)]]

(***************************************************************************)
(* GridCircle.  The iterator keeps center + 0.5 as a Vec2; center2 is      *)
(* twice that value (2 * center + 1) and the cast as_ivec2 truncates it    *)
(* toward zero.  inside_circle(p, radius + 0.5) compares                   *)
(* p.x^2 + p.y^2 <= (radius + 0.5)^2, here with both sides times 4.        *)
(***************************************************************************)
\* GridRect::origin(size): the rect of that size centered on [0, 0].
origin(size) == from_center_size(<<0, 0>>, size)

GridCircleIter_new(c, radius) ==
    [kind |-> "Circle",
     rect_iter |-> GridRectIter_new(origin(<<radius * 2 + 1, radius * 2 + 1>>)),
     center2 |-> <<2 * c[1] + 1, 2 * c[2] + 1>>,
     radius |-> radius]

inside_circle(p, radius2) ==
    4 * (p[1] * p[1] + p[2] * p[2]) <= radius2 * radius2

RECURSIVE GridCircleIter_next(_)
GridCircleIter_next(it) ==
    LET r == GridRectIter_next(it.rect_iter)
        moved == [it EXCEPT !.rect_iter = r.it]
    IN  IF r.ret.tag # "Some"
        THEN [ret |-> None, it |-> moved]
        ELSE IF inside_circle(r.ret.val, 2 * it.radius + 1)
             THEN [ret |-> Some(VAdd(<<TruncDiv(it.center2[1], 2),
                                       TruncDiv(it.center2[2], 2)>>,
                                     r.ret.val)),
                   it |-> moved]
             ELSE GridCircleIter_next(moved)

(***************************************************************************)
(* GridCircleOutline.  radius2 is twice the f32 field radius               *)
(* (2 * radius + 1); floor(sqrt(q)) of a non-negative rational q = a / b   *)
(* is the largest k with k * k * b <= a.                                   *)
(***************************************************************************)
FloorSqrt(a, b) == CHOOSE k \in 0..a : k * k * b <= a /\ (k + 1) * (k + 1) * b > a

GridCircleOutlineIter_new(c, radius) ==
    [kind |-> "CircleOutline",
     radius2 |-> 2 * radius + 1,
     center |-> c,
     r |-> 0,
     end |-> FloorSqrt((2 * radius + 1) * (2 * radius + 1), 8),
     points |-> [k \in 1..8 |-> <<0, 0>>],
     curr |-> 8]

\* next that stops one ring early (r >= end).
GridCircleOutlineIter_next_stop_at_end(it) ==
    IF it.curr >= 8 /\ it.r >= it.end
    THEN [ret |-> None, it |-> it]
    ELSE LET r == it.r
             d == FloorSqrt(it.radius2 * it.radius2 - 4 * r * r, 4)
             c == it.center
             points == <<<<c[1] - d, c[2] + r>>, <<c[1] + d, c[2] + r>>,
                         <<c[1] - d, c[2] - r>>, <<c[1] + d, c[2] - r>>,
                         <<c[1] + r, c[2] - d>>, <<c[1] + r, c[2] + d>>,
                         <<c[1] - r, c[2] - d>>, <<c[1] - r, c[2] + d>>>>
             it1 == IF it.curr >= 8
                    THEN [it EXCEPT !.curr = 0, !.points = points, !.r = r + 1]
                    ELSE it
         IN  [ret |-> Some(it1.points[it1.curr + 1]),
              it |-> [it1 EXCEPT !.curr = it1.curr + 1]]

GridCircleOutlineIter_next(it) ==
    IF it.curr >= 8 /\ it.r > it.end
    THEN [ret |-> None, it |-> it]
    ELSE LET r == it.r
             d == FloorSqrt(it.radius2 * it.radius2 - 4 * r * r, 4)
             c == it.center
             points == <<<<c[1] - d, c[2] + r>>, <<c[1] + d, c[2] + r>>,
                         <<c[1] - d, c[2] - r>>, <<c[1] + d, c[2] - r>>,
                         <<c[1] + r, c[2] - d>>, <<c[1] + r, c[2] + d>>,
                         <<c[1] - r, c[2] - d>>, <<c[1] - r, c[2] + d>>>>
             it1 == IF it.curr >= 8
                    THEN [it EXCEPT !.curr = 0, !.points = points, !.r = r + 1]
                    ELSE it
         IN  [ret |-> Some(it1.points[it1.curr + 1]),
              it |-> [it1 EXCEPT !.curr = it1.curr + 1]]

(***************************************************************************)
(* GridCone.  The trigonometry of calc_triangle_points is not computed:    *)
(* its two results, the rounded direction vector dir = (round(cos * range),*)
(* round(sin * range)) and scale = tan(size / 2) (a fraction sn / sd), are *)
(* the inputs a cone is drawn from.                                        *)
(***************************************************************************)
calc_triangle_points(pos, dir, scale) ==
    LET t == VAdd(pos, dir)
        v == <<TruncDiv((-dir[2]) * scale[1], scale[2]),
               TruncDiv(dir[1] * scale[1], scale[2])>>
    IN  <<pos, VAdd(t, v), VSub(t, v)>>

GridConeIter_from_cone(points) ==
    LET min == VMin(VMin(points[1], points[2]), points[3])
        max == VAdd(VMax(VMax(points[1], points[2]), points[3]), <<1, 1>>)
        d == VSub(max, min)
    IN  [kind |-> "Cone",
         points |-> points,
         min |-> min,
         width |-> d[1],
         curr |-> 0,
         len |-> d[1] * d[2]]

sign(p1, p2, p3) ==
    (p1[1] - p3[1]) * (p2[2] - p3[2]) - (p2[1] - p3[1]) * (p1[2] - p3[2])

\* point_in_triangle with the cells on an edge left out.
point_in_triangle_strict(pt, tri) ==
    LET d1 == sign(pt, tri[1], tri[2])
        d2 == sign(pt, tri[2], tri[3])
        d3 == sign(pt, tri[3], tri[1])
    IN  (d1 < 0 /\ d2 < 0 /\ d3 < 0) \/ (d1 > 0 /\ d2 > 0 /\ d3 > 0)

point_in_triangle(pt, tri) ==
    LET d1 == sign(pt, tri[1], tri[2])
        d2 == sign(pt, tri[2], tri[3])
        d3 == sign(pt, tri[3], tri[1])
        has_neg == d1 < 0 \/ d2 < 0 \/ d3 < 0
        has_pos == d1 > 0 \/ d2 > 0 \/ d3 > 0
    IN  ~(has_neg /\ has_pos)

RECURSIVE GridConeIter_next(_)
GridConeIter_next(it) ==
    IF ~(it.curr < it.len)
    THEN [ret |-> None, it |-> it]
    ELSE LET curr == it.curr
             moved == [it EXCEPT !.curr = curr + 1]
             p == VAdd(it.min, <<curr % it.width, curr \div it.width>>)
         IN  IF point_in_triangle(p, it.points)
             THEN [ret |-> Some(p), it |-> moved]
             ELSE GridConeIter_next(moved)

(***************************************************************************)
(* GridDiamond.                                                            *)
(***************************************************************************)
UP == <<0, 1>>
DOWN_RIGHT == <<1, -1>>
DOWN_LEFT == <<-1, -1>>
UP_LEFT == <<-1, 1>>
UP_RIGHT == <<1, 1>>

DIRECTIONS == <<DOWN_RIGHT, DOWN_LEFT, UP_LEFT, UP_RIGHT>>

GridDiamondIter_new(pos, size) ==
    [kind |-> "Diamond",
     origin |-> pos,
     p |-> pos,
     layer |-> 0,
     i |-> -1,
     dir_index |-> -1,
     size |-> size]

\* Indexing DIRECTIONS outside 0..3 panics.
GridDiamondIter_next(it) ==
    LET i == it.i + 1
    IN  IF i >= 4 * it.layer
        THEN LET layer == it.layer + 1
             IN  IF layer > it.size
                 THEN [ret |-> None, it |-> [it EXCEPT !.i = i, !.layer = layer]]
                 ELSE LET p == VAdd(it.origin, VScale(UP, layer))
                      IN  [ret |-> Some(p),
                           it |-> [it EXCEPT !.i = -1, !.layer = layer,
                                             !.dir_index = -1, !.p = p]]
        ELSE LET dir_index == IF i % it.layer = 0 THEN it.dir_index + 1
                                                  ELSE it.dir_index
                 stepped == [it EXCEPT !.i = i, !.dir_index = dir_index]
             IN  IF dir_index \notin 0..3
                 THEN [ret |-> Panic, it |-> stepped]
                 ELSE LET p == VAdd(it.p, DIRECTIONS[dir_index + 1])
                      IN  [ret |-> Some(p), it |-> [stepped EXCEPT !.p = p]]

(***************************************************************************)
(* Bookkeeping shared by every iterator action.                            *)
(***************************************************************************)
Exhausted == ret.tag = "None"

\* A call is modelled while the iterator has not panicked and at most
\* MaxAfter calls were made after the first None.
CanCall == ret.tag # "Panic" /\ after < MaxAfter

\* The log of yielded cells stops growing at OutCap cells, more than any
\* shape of the model covers, so that an enumeration that never ends is a
\* finite cycle of states.
OutCap ==
    1 + Max2(Max2(MaxSize * MaxSize, 4 * MaxLine + 1),
             Max2((2 * MaxRange + 1) * (2 * MaxRange + 1),
                  (2 * MaxRadius + 1) * (2 * MaxRadius + 1)))
Log(s, r) ==
    IF r.tag = "Some" /\ Len(s) < OutCap THEN Append(s, r.val) ELSE s

\* Some call has returned None already.
SeenNone == Exhausted \/ after > 0

IdleIter == [kind |-> "Idle"]
IdleRect == GridRect(<<0, 0>>, <<0, 0>>)

GeomIdle ==
    /\ ga = IdleRect
    /\ gb = IdleRect
    /\ gop = "none"
    /\ gres = <<>>

(***************************************************************************)
(* Specification of GridRectIter under any interleaving of next() and      *)
(* next_back().                                                            *)
(***************************************************************************)
InitRectIter ==
    /\ \E xy \in Points, size \in Sizes :
           shape = [kind |-> "Rect", rect |-> GridRect(xy, size)]
    /\ iter = GridRectIter_new(shape.rect)
    /\ out = <<>>
    /\ outBack = <<>>
    /\ ret = Start
    /\ after = 0
    /\ GeomIdle

RectNext ==
    /\ iter.kind = "Rect"
    /\ CanCall
    /\ LET r == GridRectIter_next(iter)
       IN  /\ iter' = r.it
           /\ ret' = r.ret
           /\ out' = Log(out, r.ret)
           /\ after' = IF SeenNone THEN after + 1 ELSE after
    /\ UNCHANGED <<shape, outBack, geomVars>>

RectNextBack ==
    /\ iter.kind = "Rect"
    /\ CanCall
    /\ LET r == GridRectIter_next_back(iter)
       IN  /\ iter' = r.it
           /\ ret' = r.ret
           /\ outBack' = Log(outBack, r.ret)
           /\ after' = IF SeenNone THEN after + 1 ELSE after
    /\ UNCHANGED <<shape, out, geomVars>>

NextRectIter == RectNext \/ RectNextBack

Spec == InitRectIter /\ [][NextRectIter]_vars

\* size_hint() between the calls; gres keeps the hint with the iterator it
\* was taken from.
SizeHint ==
    /\ iter.kind = "Rect"
    /\ gop = "none"
    /\ gres' = [hint |-> size_hint(iter), it |-> iter]
    /\ gop' = "size_hint"
    /\ UNCHANGED <<iterVars, ga, gb>>

NextRectHint == RectNext \/ RectNextBack \/ SizeHint

SpecRectHint == InitRectIter /\ [][NextRectHint]_vars

IterIdle ==
    /\ shape = [kind |-> "Idle"]
    /\ iter = IdleIter
    /\ out = <<>>
    /\ outBack = <<>>
    /\ ret = Start
    /\ after = 0

(***************************************************************************)
(* Specification of the GridRect operations: the rect ga is drawn by Init, *)
(* one operation is applied to it and its result kept in gres.  The build  *)
(* profile (overflow checks on or off) is chosen when iter_border runs.    *)
(***************************************************************************)
InitGeom ==
    /\ IterIdle
    /\ \E xy \in Points, size \in Sizes : ga = GridRect(xy, size)
    /\ gb = IdleRect
    /\ gop = "none"
    /\ gres = <<>>

Positive(r) == width(r) >= 1 /\ height(r) >= 1

Clipped ==
    /\ gop = "none"
    /\ \E xy \in Points, size \in Sizes :
           /\ gb' = GridRect(xy, size)
           /\ gres' = clipped(ga, GridRect(xy, size))
    /\ gop' = "clipped"
    /\ UNCHANGED <<iterVars, ga>>

IterBorder ==
    /\ gop = "none"
    /\ Positive(ga)
    /\ \E checks \in BOOLEAN : gres' = iter_border(ga, checks)
    /\ gop' = "iter_border"
    /\ UNCHANGED <<iterVars, ga, gb>>

PivotPoint ==
    /\ gop = "none"
    /\ \E pivot \in Pivots :
           gres' = [pivot |-> pivot,
                    point |-> pivot_point(ga, pivot),
                    corners |-> corners(ga)]
    /\ gop' = "pivot_point"
    /\ UNCHANGED <<iterVars, ga, gb>>

\* from_center_size(c, s) and its center(), with c = ga.xy and s = ga.size.
FromCenterSize ==
    /\ gop = "none"
    /\ LET r == from_center_size(ga.xy, ga.size)
       IN  gres' = [rect |-> r, center |-> center(r)]
    /\ gop' = "from_center_size"
    /\ UNCHANGED <<iterVars, ga, gb>>

\* center()
Center ==
    /\ gop = "none"
    /\ gres' = center(ga)
    /\ gop' = "center"
    /\ UNCHANGED <<iterVars, ga, gb>>

\* The points contains() is asked about: every cell of every rect and the
\* cells next to them.
ProbePoints ==
    ((-MaxPos - 1)..(MaxPos + MaxSize)) \X ((-MaxPos - 1)..(MaxPos + MaxSize))

\* contains(p), with contains(min()) and contains(max()) next to it.
Contains ==
    /\ gop = "none"
    /\ \E p \in ProbePoints :
           gres' = [p |-> p,
                    inside |-> contains(ga, p),
                    min |-> contains(ga, rect_min(ga)),
                    max |-> contains(ga, rect_max(ga))]
    /\ gop' = "contains"
    /\ UNCHANGED <<iterVars, ga, gb>>

\* from_pivot_pos(pivot, c, s) with c = ga.xy and s = ga.size, next to
\* from_center_size(c, s), and the center of the rect it built.
FromPivotPos ==
    /\ gop = "none"
    /\ \E pivot \in Pivots :
           LET r == from_pivot_pos(pivot, ga.xy, ga.size)
           IN  gres' = [pivot |-> pivot,
                        rect |-> r,
                        by_center |-> from_center_size(ga.xy, ga.size),
                        center |-> center(r),
                        pivot_center |-> pivot_point(r, "Center")]
    /\ gop' = "from_pivot_pos"
    /\ UNCHANGED <<iterVars, ga, gb>>

NextGeom ==
    \/ Clipped
    \/ IterBorder
    \/ PivotPoint
    \/ FromCenterSize
    \/ Center
    \/ Contains
    \/ FromPivotPos

SpecGeom == InitGeom /\ [][NextGeom]_vars

(***************************************************************************)
(* Specification of the operations on two rects: Init draws the receiver   *)
(* ga, an operation draws its argument gb.                                 *)
(***************************************************************************)
PairSizes == (0..MaxPairSize) \X (0..MaxPairSize)
PairRects == {GridRect(xy, size) : xy \in Points, size \in PairSizes}

InitPairs ==
    /\ IterIdle
    /\ ga \in PairRects
    /\ gb = IdleRect
    /\ gop = "none"
    /\ gres = <<>>

\* a.overlaps(b), with b.overlaps(a) and a.overlaps(a) next to it.
Overlaps ==
    /\ gop = "none"
    /\ \E b \in PairRects :
           /\ gb' = b
           /\ gres' = [ab |-> overlaps(ga, b),
                       ba |-> overlaps(b, ga),
                       aa |-> overlaps(ga, ga)]
    /\ gop' = "overlaps"
    /\ UNCHANGED <<iterVars, ga>>

\* a.clipped(b) and a.clipped(b).clipped(b)
ClippedTwice ==
    /\ gop = "none"
    /\ \E b \in PairRects :
           /\ gb' = b
           /\ gres' = [once |-> clipped(ga, b),
                       twice |-> clipped(clipped(ga, b), b)]
    /\ gop' = "clipped_twice"
    /\ UNCHANGED <<iterVars, ga>>

NextPairs == Overlaps \/ ClippedTwice

SpecPairs == InitPairs /\ [][NextPairs]_vars

(***************************************************************************)
(* Specification of envelope growth: a rect of positive size, then any     *)
(* sequence of envelope_point and envelope_rect calls on it.  gres keeps   *)
(* the rect before the latest call, the argument of that call, and the     *)
(* corners lo..hi of the smallest box around every cell the rect started   *)
(* with or was asked to envelop.                                           *)
(***************************************************************************)
\* lo..hi grown by the cells of a set of cells.
Hull(need, cells) ==
    IF cells = {}
    THEN need
    ELSE [lo |-> <<Min2(need.lo[1], CHOOSE m \in {c[1] : c \in cells} :
                                        \A c \in cells : m <= c[1]),
                   Min2(need.lo[2], CHOOSE m \in {c[2] : c \in cells} :
                                        \A c \in cells : m <= c[2])>>,
          hi |-> <<Max2(need.hi[1], CHOOSE m \in {c[1] : c \in cells} :
                                        \A c \in cells : m >= c[1]),
                   Max2(need.hi[2], CHOOSE m \in {c[2] : c \in cells} :
                                        \A c \in cells : m >= c[2])>>]

EnvRects ==
    {GridRect(xy, size) :
        xy \in Points, size \in (0..MaxEnvSize) \X (0..MaxEnvSize)}

InitEnvelope ==
    /\ IterIdle
    /\ ga \in {r \in EnvRects : Positive(r)}
    /\ gb = IdleRect
    /\ gop = "none"
    /\ gres = [prev |-> ga, arg |-> <<>>, calls |-> 0,
               need |-> [lo |-> rect_min(ga), hi |-> rect_max(ga)]]

EnvelopePoint ==
    /\ gres.calls < MaxCalls
    /\ \E p \in Points :
           /\ ga' = envelope_point(ga, p)
           /\ gres' = [prev |-> ga, arg |-> p, calls |-> gres.calls + 1,
                       need |-> Hull(gres.need, {p})]
    /\ gop' = "envelope_point"
    /\ UNCHANGED <<iterVars, gb>>

EnvelopeRect ==
    /\ gres.calls < MaxCalls
    /\ \E r \in EnvRects :
           /\ ga' = envelope_rect(ga, r)
           /\ gb' = r
           /\ gres' = [prev |-> ga, arg |-> r, calls |-> gres.calls + 1,
                       need |-> Hull(gres.need, CellsOf(r))]
    /\ gop' = "envelope_rect"
    /\ UNCHANGED iterVars

NextEnvelope == EnvelopePoint \/ EnvelopeRect

SpecEnvelope == InitEnvelope /\ [][NextEnvelope]_vars

(***************************************************************************)
(* Pivot and the dense Grid's coordinate transforms.  A grid point is a    *)
(* record [point, pivot]; pivot is "None" for a plain IVec2.  Vec2 values  *)
(* of a pivot are multiples of 0.5 and are kept doubled.                   *)
(***************************************************************************)
axis(pivot) ==
    CASE pivot = "TopLeft" -> <<1, -1>>
      [] pivot = "TopRight" -> <<-1, -1>>
      [] pivot = "Center" -> <<1, 1>>
      [] pivot = "BottomLeft" -> <<1, 1>>
      [] pivot = "BottomRight" -> <<-1, 1>>

\* Vec2::from(pivot), doubled.
pivot_vec2(pivot) ==
    CASE pivot = "TopLeft" -> <<0, 2>>
      [] pivot = "TopRight" -> <<2, 2>>
      [] pivot = "Center" -> <<1, 1>>
      [] pivot = "BottomLeft" -> <<0, 0>>
      [] pivot = "BottomRight" -> <<2, 0>>

\* transform_point without the origin of the pivot.
transform_point_axis_only(pivot, point, size) ==
    <<point[1] * axis(pivot)[1], point[2] * axis(pivot)[2]>>

\* Pivot::transform_point: ((size - 1.0) * Vec2::from(pivot)).round() + point * axis
transform_point(pivot, point, size) ==
    LET v == pivot_vec2(pivot)
        orig == <<RoundDiv((size[1] - 1) * v[1], 2),
                  RoundDiv((size[2] - 1) * v[2], 2)>>
        pt == <<point[1] * axis(pivot)[1], point[2] * axis(pivot)[2]>>
    IN  VAdd(orig, pt)

Grid(size) == [size |-> size]

pivoted_point(grid, xy) ==
    IF xy.pivot # "None"
    THEN transform_point(xy.pivot, xy.point, grid.size)
    ELSE xy.point

transform_lti(grid, xy) ==
    LET p == pivoted_point(grid, xy)
    IN  p[2] * grid.size[1] + p[1]

\* transform_itl with the index split by the height.
transform_itl_by_height(grid, index) ==
    <<index % grid.size[2], index \div grid.size[2]>>

transform_itl(grid, index) ==
    <<index % grid.size[1], index \div grid.size[1]>>

in_bounds(grid, p) ==
    ~(   (p[1] < 0 \/ p[2] < 0)
      \/ (p[1] >= grid.size[1] \/ p[2] >= grid.size[2]))

(***************************************************************************)
(* Specification of the transforms: Init builds a grid (ga), an operation  *)
(* is applied to an in-bounds point or index of it.                        *)
(***************************************************************************)
InitGrid ==
    /\ IterIdle
    /\ \E size \in Sizes : ga = Grid(size)
    /\ gb = IdleRect
    /\ gop = "none"
    /\ gres = <<>>

GridPoints == (0..MaxSize) \X (0..MaxSize)

\* transform_lti of a plain point, and transform_itl of the index.
TransformLti ==
    /\ gop = "none"
    /\ \E p \in GridPoints :
           /\ in_bounds(ga, p)
           /\ LET i == transform_lti(ga, [point |-> p, pivot |-> "None"])
              IN  gres' = [p |-> p, index |-> i, back |-> transform_itl(ga, i)]
    /\ gop' = "transform_lti"
    /\ UNCHANGED <<iterVars, ga, gb>>

\* transform_itl of an index, and transform_lti of the point.
TransformItl ==
    /\ gop = "none"
    /\ \E i \in 0..(ga.size[1] * ga.size[2] - 1) :
           LET p == transform_itl(ga, i)
           IN  gres' = [index |-> i, p |-> p,
                        back |-> transform_lti(ga, [point |-> p, pivot |-> "None"])]
    /\ gop' = "transform_itl"
    /\ UNCHANGED <<iterVars, ga, gb>>

\* pivot.transform_point(p, size), and transform_point of the result.
TransformPoint ==
    /\ gop = "none"
    /\ \E pivot \in Pivots, p \in GridPoints :
           /\ in_bounds(ga, p)
           /\ LET q == transform_point(pivot, p, ga.size)
              IN  gres' = [pivot |-> pivot, p |-> p, q |-> q,
                           back |-> transform_point(pivot, q, ga.size)]
    /\ gop' = "transform_point"
    /\ UNCHANGED <<iterVars, ga, gb>>

NextGrid == TransformLti \/ TransformItl \/ TransformPoint

SpecGrid == InitGrid /\ [][NextGrid]_vars

(***************************************************************************)
(* Specification of the shape iterators: Init builds the iterator of one   *)
(* shape, every step is one GridShapeIterator::next call on it.            *)
(***************************************************************************)
LinePoints == ((-MaxLine)..MaxLine) \X ((-MaxLine)..MaxLine)
ConeDirs == ((-MaxRange)..MaxRange) \X ((-MaxRange)..MaxRange)
\* tan(size / 2) for an arc of 0, about 53 and 90 degrees.
ConeScales == {<<0, 1>>, <<1, 2>>, <<1, 1>>}

Shapes ==
         {[kind |-> "Rect", rect |-> GridRect(xy, size)] :
             xy \in Points, size \in Sizes}
    \cup {[kind |-> "Line", start |-> s, end |-> e] :
             s \in LinePoints, e \in LinePoints}
    \cup {[kind |-> "LineOrtho", start |-> s, end |-> e] :
             s \in LinePoints, e \in LinePoints}
    \cup {[kind |-> "Circle", center |-> c, radius |-> r] :
             c \in Points, r \in 0..MaxRadius}
    \cup {[kind |-> "CircleOutline", center |-> c, radius |-> r] :
             c \in Points, r \in 0..MaxRadius}
    \cup {[kind |-> "Cone", pos |-> c, dir |-> d, scale |-> t] :
             c \in Points, d \in ConeDirs, t \in ConeScales}
    \cup {[kind |-> "Diamond", pos |-> c, radius |-> r] :
             c \in Points, r \in 0..MaxRadius}

\* GridShape::iter / IntoIterator::into_iter of each shape.
into_iter(sh) ==
    CASE sh.kind = "Rect" -> GridRectIter_new(sh.rect)
      [] sh.kind = "Line" -> GridLineIter_new(sh.start, sh.end)
      [] sh.kind = "LineOrtho" -> GridLineOrthoIter_new(sh.start, sh.end)
      [] sh.kind = "Circle" -> GridCircleIter_new(sh.center, sh.radius)
      [] sh.kind = "CircleOutline" ->
             GridCircleOutlineIter_new(sh.center, sh.radius)
      [] sh.kind = "Cone" ->
             GridConeIter_from_cone(calc_triangle_points(sh.pos, sh.dir, sh.scale))
      [] sh.kind = "Diamond" -> GridDiamondIter_new(sh.pos, sh.radius)

InitShapes ==
    /\ shape \in Shapes
    /\ iter = into_iter(shape)
    /\ out = <<>>
    /\ outBack = <<>>
    /\ ret = Start
    /\ after = 0
    /\ GeomIdle

\* One next() call that returned r.ret and left the iterator as r.it.
Called(r) ==
    /\ iter' = r.it
    /\ ret' = r.ret
    /\ out' = Log(out, r.ret)
    /\ after' = IF SeenNone THEN after + 1 ELSE after
    /\ UNCHANGED <<shape, outBack, geomVars>>

LineNext ==
    /\ iter.kind = "Line"
    /\ CanCall
    /\ Called(GridLineIter_next(iter))

LineOrthoNext ==
    /\ iter.kind = "LineOrtho"
    /\ CanCall
    /\ Called(GridLineOrthoIter_next(iter))

CircleNext ==
    /\ iter.kind = "Circle"
    /\ CanCall
    /\ Called(GridCircleIter_next(iter))

CircleOutlineNext ==
    /\ iter.kind = "CircleOutline"
    /\ CanCall
    /\ Called(GridCircleOutlineIter_next(iter))

ConeNext ==
    /\ iter.kind = "Cone"
    /\ CanCall
    /\ Called(GridConeIter_next(iter))

DiamondNext ==
    /\ iter.kind = "Diamond"
    /\ CanCall
    /\ Called(GridDiamondIter_next(iter))

\* GridShapeIterator::next dispatches on the kind of the wrapped iterator.
NextShapes ==
    \/ RectNext
    \/ LineNext
    \/ LineOrthoNext
    \/ CircleNext
    \/ CircleOutlineNext
    \/ ConeNext
    \/ DiamondNext

SpecShapes == InitShapes /\ [][NextShapes]_vars

\* The caller keeps calling next() for as long as a call is possible.
FairShapes == SpecShapes /\ WF_vars(NextShapes)

(***************************************************************************)
(* The GridShape operations next to iter(): pos(), set_pos() and bounds(). *)
(* A shape is relocated, or its bounds taken, before it is iterated; the   *)
(* iterator is built from the shape as it is when iter() is called.        *)
(***************************************************************************)
\* GridShape::pos
pos(sh) ==
    CASE sh.kind \in {"Line", "LineOrtho"} -> sh.start
      [] sh.kind \in {"Circle", "CircleOutline"} -> sh.center
      [] sh.kind \in {"Cone", "Diamond"} -> sh.pos

\* GridShape::set_pos
set_pos(sh, q) ==
    CASE sh.kind \in {"Line", "LineOrtho"} ->
             LET v == VSub(sh.end, sh.start)
             IN  [sh EXCEPT !.start = q, !.end = VAdd(q, v)]
      [] sh.kind \in {"Circle", "CircleOutline"} -> [sh EXCEPT !.center = q]
      [] sh.kind \in {"Cone", "Diamond"} -> [sh EXCEPT !.pos = q]

\* GridShape::bounds
bounds(sh) ==
    CASE sh.kind \in {"Line", "LineOrtho"} ->
             from_points(VMin(sh.start, sh.end), VMax(sh.start, sh.end))
      [] sh.kind \in {"Circle", "CircleOutline"} ->
             GridRect(sh.center, <<sh.radius * 2, sh.radius * 2>>)
      [] sh.kind = "Cone" ->
             LET cs == calc_triangle_points(sh.pos, sh.dir, sh.scale)
             IN  from_points(VMin(VMin(cs[1], cs[2]), cs[3]),
                             VMax(VMax(cs[1], cs[2]), cs[3]))
      [] sh.kind = "Diamond" ->
             from_center_size(sh.pos, <<sh.radius * 2 + 1, sh.radius * 2 + 1>>)

\* The shapes that implement GridShape (GridRect does not).
IsGridShape(sh) == sh.kind # "Rect"

Bounds ==
    /\ gop = "none"
    /\ ret = Start
    /\ IsGridShape(shape)
    /\ gres' = bounds(shape)
    /\ gop' = "bounds"
    /\ UNCHANGED <<iterVars, ga, gb>>

\* s.set_pos(q) followed by s.iter(); gres keeps the shape as it was.
SetPos ==
    /\ gop = "none"
    /\ ret = Start
    /\ IsGridShape(shape)
    /\ \E q \in Points :
           /\ shape' = set_pos(shape, q)
           /\ iter' = into_iter(set_pos(shape, q))
           /\ gres' = [old |-> shape, q |-> q]
    /\ gop' = "set_pos"
    /\ UNCHANGED <<out, outBack, ret, after, ga, gb>>

NextShapeOps == Bounds \/ SetPos \/ NextShapes

SpecShapeOps == InitShapes /\ [][NextShapeOps]_vars

\* The rect a GridRectIter was built from.
IterRect == GridRect(iter.origin, iter.size)

Yielded == out \o outBack

(***************************************************************************)
(* C1: draining a GridRectIter over a rect with width, height >= 0 with    *)
(* next() alone yields exactly width * height cells (none when a           *)
(* dimension is 0).                                                        *)
(***************************************************************************)
C1_NextYieldsWidthTimesHeight ==
    (iter.kind = "Rect" /\ outBack = <<>> /\ SeenNone)
        => Len(out) = iter.size[1] * iter.size[2]

(***************************************************************************)
(* C2: for a rect with width, height >= 1, under any interleaving of       *)
(* next() and next_back() no cell is yielded twice, and once a call has    *)
(* returned None every cell of the rect has been yielded exactly once.     *)
(***************************************************************************)
C2_InterleavedExactlyOnce ==
    (iter.kind = "Rect" /\ iter.size[1] >= 1 /\ iter.size[2] >= 1)
        => /\ NoDup(Yielded)
           /\ SeqToSet(Yielded) \subseteq CellsOf(IterRect)
           /\ SeenNone => SeqToSet(Yielded) = CellsOf(IterRect)

C2_Witness ==
    /\ iter.kind = "Rect"
    /\ iter.size = <<3, 2>>
    /\ Exhausted
    /\ Len(out) = 4
    /\ Len(outBack) = 2

(***************************************************************************)
(* C3: for rects A, B of positive size the cells iterated by A.clipped(B)  *)
(* are exactly the cells contained in both A and B, each once; when A and  *)
(* B share no cell, the result iterates zero cells.                        *)
(***************************************************************************)
C3_ClippedIsIntersection ==
    (gop = "clipped" /\ Positive(ga) /\ Positive(gb))
        => /\ SeqToSet(rect_iter(gres)) = CellsOf(ga) \cap CellsOf(gb)
           /\ NoDup(rect_iter(gres))

(***************************************************************************)
(* C4: for a rect 1 cell wide or 1 cell tall, iter_border() does not       *)
(* panic and yields every cell of the rect exactly once (1 cell for 1x1).  *)
(***************************************************************************)
C4_ThinBorderOnce ==
    (gop = "iter_border" /\ (width(ga) = 1 \/ height(ga) = 1))
        => /\ gres.tag = "Ok"
           /\ NoDup(gres.cells)
           /\ SeqToSet(gres.cells) = CellsOf(ga)

(***************************************************************************)
(* C5: for a rect N wide and M tall, N, M >= 2, iter_border() yields       *)
(* 2N + 2M - 4 cells: each border cell once, clockwise from the            *)
(* bottom-left cell (up the left column, right along the top row, down     *)
(* the right column, left along the bottom row).                           *)
(***************************************************************************)
BorderCells(r) ==
    {p \in CellsOf(r) : \/ p[1] \in {rect_min(r)[1], rect_max(r)[1]}
                        \/ p[2] \in {rect_min(r)[2], rect_max(r)[2]}}

Clockwise(r) ==
    LET x0 == r.xy[1]
        y0 == r.xy[2]
        x1 == r.xy[1] + r.size[1] - 1
        y1 == r.xy[2] + r.size[2] - 1
    IN    [i \in 1..r.size[2] |-> <<x0, y0 + i - 1>>]
       \o [i \in 1..(r.size[1] - 2) |-> <<x0 + i, y1>>]
       \o [i \in 1..r.size[2] |-> <<x1, y1 - i + 1>>]
       \o [i \in 1..(r.size[1] - 2) |-> <<x1 - i, y0>>]

C5_BorderClockwise ==
    (gop = "iter_border" /\ width(ga) >= 2 /\ height(ga) >= 2)
        => /\ gres.tag = "Ok"
           /\ gres.cells = Clockwise(ga)
           /\ Len(gres.cells) = 2 * width(ga) + 2 * height(ga) - 4
           /\ NoDup(gres.cells)
           /\ SeqToSet(gres.cells) = BorderCells(ga)

C5_Witness ==
    /\ gop = "iter_border"
    /\ ga = GridRect(<<-1, 0>>, <<3, 2>>)
    /\ gres.tag = "Ok"
    /\ Len(gres.cells) = 6

(***************************************************************************)
(* C6: for a rect with width, height >= 1, pivot_point agrees with         *)
(* corners(): BottomLeft is bl() = (min.x, min.y), TopLeft is tl() =       *)
(* (min.x, max.y), TopRight is tr() = (max.x, max.y) and BottomRight is    *)
(* br() = (max.x, min.y).                                                  *)
(***************************************************************************)
C6_PivotPointIsCorner ==
    (gop = "pivot_point" /\ Positive(ga))
        => LET x0 == ga.xy[1]
               y0 == ga.xy[2]
               x1 == ga.xy[1] + ga.size[1] - 1
               y1 == ga.xy[2] + ga.size[2] - 1
               pt == gres.point
               cs == gres.corners
           IN  /\ gres.pivot = "BottomLeft" => pt = cs[1] /\ pt = <<x0, y0>>
               /\ gres.pivot = "TopLeft" => pt = cs[2] /\ pt = <<x0, y1>>
               /\ gres.pivot = "TopRight" => pt = cs[3] /\ pt = <<x1, y1>>
               /\ gres.pivot = "BottomRight" => pt = cs[4] /\ pt = <<x1, y0>>

(***************************************************************************)
(* C7: GridLine::new(start, end) iterates exactly max(|dx|, |dy|) + 1      *)
(* cells: the first is start, the last is end, consecutive cells differ    *)
(* by at most 1 on each axis; for start = end the one cell is start.       *)
(***************************************************************************)
ChebyshevStep(p, q) == Abs(q[1] - p[1]) <= 1 /\ Abs(q[2] - p[2]) <= 1

C7_LineGapFree ==
    shape.kind = "Line"
        => LET dist == Max2(Abs(shape.end[1] - shape.start[1]),
                            Abs(shape.end[2] - shape.start[2]))
           IN  /\ Len(out) <= dist + 1
               /\ Len(out) >= 1 => out[1] = shape.start
               /\ \A k \in 1..(Len(out) - 1) : ChebyshevStep(out[k], out[k + 1])
               /\ SeenNone => Len(out) = dist + 1 /\ out[Len(out)] = shape.end

(***************************************************************************)
(* C8: GridLineOrtho::new(start, end) iterates exactly |dx| + |dy| + 1     *)
(* cells: the first is start, the last is end, consecutive cells differ    *)
(* by one unit on exactly one axis.                                        *)
(***************************************************************************)
OrthoStep(p, q) == Abs(q[1] - p[1]) + Abs(q[2] - p[2]) = 1

C8_OrthoLineSteps ==
    shape.kind = "LineOrtho"
        => LET steps == Abs(shape.end[1] - shape.start[1])
                            + Abs(shape.end[2] - shape.start[2])
           IN  /\ Len(out) <= steps + 1
               /\ Len(out) >= 1 => out[1] = shape.start
               /\ \A k \in 1..(Len(out) - 1) : OrthoStep(out[k], out[k + 1])
               /\ SeenNone => Len(out) = steps + 1 /\ out[Len(out)] = shape.end

(***************************************************************************)
(* C9: every shape iterator is finite: for every rect, line, orthogonal    *)
(* line, circle, circle outline, cone and diamond, the degenerate ones     *)
(* included, repeatedly calling next() eventually returns None.            *)
(***************************************************************************)
C9_ShapeIteratorsTerminate == <>SeenNone

(***************************************************************************)
(* C10: GridCircle::new(c, r) iterates exactly the cells c + (x, y) with   *)
(* -r <= x, y <= r and x*x + y*y <= r*r + r, each once, for every integer  *)
(* center c (negative coordinates included); radius 0 yields c alone.      *)
(***************************************************************************)
CircleCells(c, r) ==
    {<<c[1] + x, c[2] + y>> : <<x, y>> \in
        {q \in ((-r)..r) \X ((-r)..r) : q[1] * q[1] + q[2] * q[2] <= r * r + r}}

C10_CircleCells ==
    shape.kind = "Circle"
        => /\ NoDup(out)
           /\ SeqToSet(out) \subseteq CircleCells(shape.center, shape.radius)
           /\ SeenNone => SeqToSet(out) = CircleCells(shape.center, shape.radius)
           /\ (SeenNone /\ shape.radius = 0) => out = <<shape.center>>

(***************************************************************************)
(* C11: GridDiamond::new(c, radius) yields exactly 1 cell of ring 0 (the   *)
(* center c) and exactly 4k cells of each ring k, 1 <= k <= radius, hence  *)
(* 1 + 2 * radius * (radius + 1) items in all (1 item for radius 0).       *)
(***************************************************************************)
TaxiDist(p, q) == Abs(p[1] - q[1]) + Abs(p[2] - q[2])

\* The first None was just returned: out is what the shape iterates.
FirstNone == Exhausted /\ after = 0

\* How many yielded items lie on ring k around c.
RingCount(c, k) == Cardinality({i \in 1..Len(out) : TaxiDist(out[i], c) = k})

C11_DiamondRingCounts ==
    (shape.kind = "Diamond" /\ FirstNone)
        => /\ Len(out) = 1 + 2 * shape.radius * (shape.radius + 1)
           /\ RingCount(shape.pos, 0) = 1
           /\ \A k \in 1..shape.radius : RingCount(shape.pos, k) = 4 * k

(***************************************************************************)
(* C12: GridDiamond::new(c, r) iterates exactly the cells at taxicab       *)
(* distance <= r from c, the center included, each exactly once.           *)
(***************************************************************************)
DiamondCells(c, r) ==
    {p \in ((c[1] - r)..(c[1] + r)) \X ((c[2] - r)..(c[2] + r)) :
        TaxiDist(p, c) <= r}

C12_DiamondFilledOnce ==
    (shape.kind = "Diamond" /\ after = 0)
        => /\ NoDup(out)
           /\ SeqToSet(out) \subseteq DiamondCells(shape.pos, shape.radius)
           /\ Exhausted => SeqToSet(out) = DiamondCells(shape.pos, shape.radius)

(***************************************************************************)
(* C13: for every line, orthogonal line, circle, circle outline, cone and  *)
(* diamond, bounds() is the minimal enclosing rect: it contains every      *)
(* cell iter() yields, and its extent on each axis is exactly the extent   *)
(* of those cells (it has no cell when iter() yields none).                *)
(***************************************************************************)
CoordMin(s, ax) ==
    CHOOSE m \in {s[i][ax] : i \in 1..Len(s)} :
        \A i \in 1..Len(s) : m <= s[i][ax]
CoordMax(s, ax) ==
    CHOOSE m \in {s[i][ax] : i \in 1..Len(s)} :
        \A i \in 1..Len(s) : m >= s[i][ax]

C13_BoundsMinimal ==
    (gop = "bounds" /\ after = 0)
        => /\ \A i \in 1..Len(out) : contains(gres, out[i])
           /\ (Exhausted /\ out # <<>>)
                 => /\ rect_min(gres) = <<CoordMin(out, 1), CoordMin(out, 2)>>
                    /\ rect_max(gres) = <<CoordMax(out, 1), CoordMax(out, 2)>>
           /\ (Exhausted /\ out = <<>>) => CellsOf(gres) = {}

(***************************************************************************)
(* C14: set_pos relocates a shape without changing its form: after         *)
(* s.set_pos(q), s.pos() = q and s.iter() yields the sequence it yielded   *)
(* before, translated by q - old pos(), for every q (negative coordinates  *)
(* included).                                                              *)
(***************************************************************************)
\* GridShapeIterator::next
shape_next(it) ==
    CASE it.kind = "Rect" -> GridRectIter_next(it)
      [] it.kind = "Line" -> GridLineIter_next(it)
      [] it.kind = "LineOrtho" -> GridLineOrthoIter_next(it)
      [] it.kind = "Circle" -> GridCircleIter_next(it)
      [] it.kind = "CircleOutline" -> GridCircleOutlineIter_next(it)
      [] it.kind = "Cone" -> GridConeIter_next(it)
      [] it.kind = "Diamond" -> GridDiamondIter_next(it)

\* The first n cells an iterator yields (fewer if it returns None before).
RECURSIVE Collect(_, _)
Collect(it, n) ==
    IF n = 0
    THEN <<>>
    ELSE LET r == shape_next(it)
         IN  IF r.ret.tag = "Some"
             THEN <<r.ret.val>> \o Collect(r.it, n - 1)
             ELSE <<>>

C14_SetPosTranslates ==
    (gop = "set_pos" /\ after = 0)
        => LET d == VSub(gres.q, pos(gres.old))
               before == Collect(into_iter(gres.old), OutCap)
           IN  /\ pos(shape) = gres.q
               /\ Len(out) <= Len(before)
               /\ \A i \in 1..Len(out) : out[i] = VAdd(before[i], d)
               /\ Exhausted => Len(out) = Len(before)

(***************************************************************************)
(* C15: for rects A, B with width, height >= 1, A.overlaps(B) is true if   *)
(* and only if some cell is contained in both A and B; rects with no       *)
(* common cell, directly adjacent ones included, do not overlap.           *)
(***************************************************************************)
PairCells ==
    ((-MaxPos)..(MaxPos + MaxPairSize)) \X ((-MaxPos)..(MaxPos + MaxPairSize))

ShareCell(a, b) == \E p \in PairCells : contains(a, p) /\ contains(b, p)

C15_OverlapsIffShareCell ==
    (gop = "overlaps" /\ Positive(ga) /\ Positive(gb))
        => (gres.ab <=> ShareCell(ga, gb))

(***************************************************************************)
(* C16: overlaps is symmetric, A.overlaps(B) = B.overlaps(A) for all       *)
(* rects A and B, and reflexive, A.overlaps(A) for every rect A with       *)
(* width, height >= 1.                                                     *)
(***************************************************************************)
C16_OverlapsSymmetricReflexive ==
    gop = "overlaps"
        => /\ gres.ab = gres.ba
           /\ Positive(ga) => gres.aa

\* Two rects of different odd and even sizes, compared both ways.
C16_Witness ==
    /\ gop = "overlaps"
    /\ ga = GridRect(<<-1, 0>>, <<3, 2>>)
    /\ gb = GridRect(<<1, 1>>, <<2, 3>>)
    /\ gres.ab
    /\ gres.ba
    /\ gres.aa

(***************************************************************************)
(* C17: clipping is idempotent: for rects A, B with width, height >= 1,    *)
(* intersecting or not, A.clipped(B).clipped(B) = A.clipped(B).            *)
(***************************************************************************)
C17_ClipIdempotent ==
    (gop = "clipped_twice" /\ Positive(ga) /\ Positive(gb))
        => gres.twice = gres.once

(***************************************************************************)
(* C18: for a rect with width, height >= 1, next() alone yields the cells  *)
(* in row-major order from the bottom-left cell (x ascending in a row,     *)
(* rows in ascending y), and next_back() alone on a fresh iterator yields  *)
(* exactly the reverse of that sequence, from the top-right cell, with no  *)
(* omission.                                                               *)
(***************************************************************************)
RowMajor(r) ==
    [i \in 1..(r.size[1] * r.size[2]) |->
        <<r.xy[1] + ((i - 1) % r.size[1]), r.xy[2] + ((i - 1) \div r.size[1])>>]

IsPrefix(s, t) == Len(s) <= Len(t) /\ \A i \in 1..Len(s) : s[i] = t[i]

C18_RowMajorAndReverse ==
    (iter.kind = "Rect" /\ Positive(IterRect))
        => /\ outBack = <<>> =>
                 /\ IsPrefix(out, RowMajor(IterRect))
                 /\ SeenNone => out = RowMajor(IterRect)
           /\ out = <<>> =>
                 /\ IsPrefix(outBack, Reverse(RowMajor(IterRect)))
                 /\ SeenNone => outBack = Reverse(RowMajor(IterRect))

\* A 3 x 2 rect drained from the back: the top-right cell comes first.
C18_Witness ==
    /\ iter.kind = "Rect"
    /\ iter.size = <<3, 2>>
    /\ out = <<>>
    /\ Exhausted
    /\ Len(outBack) = 6
    /\ outBack[1] = VAdd(iter.origin, <<2, 1>>)
    /\ outBack[6] = iter.origin

(***************************************************************************)
(* C19: after any sequence of next() and next_back() calls on a            *)
(* GridRectIter over a rect with width, height >= 0, size_hint() returns   *)
(* (n, Some(n)) with n the number of cells the iterator will still yield;  *)
(* n = 0 exactly when the next call returns None.                          *)
(***************************************************************************)
C19_SizeHintExact ==
    gop = "size_hint"
        => /\ gres.hint = Len(DrainRect(gres.it))
           /\ gres.hint = 0 <=> GridRectIter_next(gres.it).ret = None
           /\ gres.hint = 0 <=> GridRectIter_next_back(gres.it).ret = None

(***************************************************************************)
(* C20: for every center c and every size s with components >= 0, odd or  *)
(* even, GridRect::from_center_size(c, s).center() = c and the rect has    *)
(* size s.                                                                 *)
(***************************************************************************)
C20_CenterRoundTrip ==
    gop = "from_center_size"
        => /\ gres.center = ga.xy
           /\ gres.rect.size = ga.size

\* An even width and an odd height around a center with a negative coordinate.
C20_Witness ==
    /\ gop = "from_center_size"
    /\ ga = GridRect(<<-1, 1>>, <<4, 3>>)
    /\ gres.rect = GridRect(<<-3, 0>>, <<4, 3>>)
    /\ gres.center = <<-1, 1>>

(***************************************************************************)
(* C21: for a rect with width, height >= 1, center() rounds toward the     *)
(* bottom-left: on each axis center - min <= max - center, so center() is  *)
(* the lower / left of the two middle cells of an even dimension and the   *)
(* middle cell of an odd one.                                              *)
(***************************************************************************)
C21_CenterRoundsBottomLeft ==
    (gop = "center" /\ Positive(ga))
        => \A ax \in 1..2 :
               /\ gres[ax] - rect_min(ga)[ax] <= rect_max(ga)[ax] - gres[ax]
               /\ gres[ax] = rect_min(ga)[ax] + ((ga.size[ax] - 1) \div 2)

(***************************************************************************)
(* C22: envelope growth never shrinks.  After any sequence of              *)
(* envelope_point(p) and envelope_rect(r) calls on a rect that starts      *)
(* with width, height >= 1, the rect contains every cell it contained      *)
(* before the call, the enveloped point p or every cell of the enveloped   *)
(* rect r, and it is the smallest rect that contains all of these.         *)
(***************************************************************************)
C22_EnvelopeSmallestGrowth ==
    gop \in {"envelope_point", "envelope_rect"}
        => /\ \A c \in CellsOf(gres.prev) : contains(ga, c)
           /\ gop = "envelope_point" => contains(ga, gres.arg)
           /\ gop = "envelope_rect" => \A c \in CellsOf(gres.arg) : contains(ga, c)
           /\ rect_min(ga) = gres.need.lo
           /\ rect_max(ga) = gres.need.hi

(***************************************************************************)
(* C23: for every rect R built by new(position, size) with size            *)
(* components >= 0, contains(p) is true exactly when min <= p <= max on    *)
(* both axes.  As claimed, R.contains(R.min()) and R.contains(R.max())     *)
(* hold for every such rect; they hold when width, height >= 1 (a rect     *)
(* with a zero dimension has max below min and contains no point).         *)
(***************************************************************************)
Within(r, p) ==
    /\ r.xy[1] <= p[1] /\ p[1] <= r.xy[1] + r.size[1] - 1
    /\ r.xy[2] <= p[2] /\ p[2] <= r.xy[2] + r.size[2] - 1

\* The claim as stated: the corners are contained in every rect.
C23_ContainsCornersAlways ==
    gop = "contains"
        => /\ gres.inside <=> Within(ga, gres.p)
           /\ gres.min
           /\ gres.max

\* The claim as amended: the corners are contained in rects of positive size.
C23_ContainsInclusive ==
    gop = "contains"
        => /\ gres.inside <=> Within(ga, gres.p)
           /\ Positive(ga) => gres.min /\ gres.max

\* The max corner of a 2 x 3 rect is asked about.
C23_Witness ==
    /\ gop = "contains"
    /\ ga = GridRect(<<-1, 0>>, <<2, 3>>)
    /\ gres.p = <<0, 2>>
    /\ gres.inside
    /\ gres.min
    /\ gres.max

(***************************************************************************)
(* C24: on a dense Grid of width w >= 1 and height h >= 1, for every       *)
(* in-bounds plain point (x, y) transform_lti gives y * w + x < w * h and  *)
(* transform_itl of that index is (x, y); for every index i < w * h,       *)
(* transform_lti(transform_itl(i)) = i.                                    *)
(***************************************************************************)
C24_LinearIndexRoundTrip ==
    /\ gop = "transform_lti"
          => /\ gres.index = gres.p[2] * ga.size[1] + gres.p[1]
             /\ gres.index >= 0
             /\ gres.index < ga.size[1] * ga.size[2]
             /\ gres.back = gres.p
    /\ gop = "transform_itl"
          => /\ in_bounds(ga, gres.p)
             /\ gres.back = gres.index

\* The top-right cell of a 3 x 2 grid is index 5.
C24_Witness ==
    /\ gop = "transform_lti"
    /\ ga.size = <<3, 2>>
    /\ gres.p = <<2, 1>>
    /\ gres.index = 5
    /\ gres.back = <<2, 1>>

(***************************************************************************)
(* C25: for each corner pivot, every size (w, h) with w, h >= 1 and every  *)
(* local point p with 0 <= p.x < w, 0 <= p.y < h, transform_point(p, size) *)
(* is the cell p steps inward from that corner: x' = p.x if axis.x = 1,    *)
(* else w - 1 - p.x; y' = p.y if axis.y = 1, else h - 1 - p.y.  The result *)
(* is in bounds, and transforming it again gives p.                        *)
(***************************************************************************)
CornerPivots == {"TopLeft", "TopRight", "BottomLeft", "BottomRight"}

C25_CornerPivotTransform ==
    (gop = "transform_point" /\ gres.pivot \in CornerPivots)
        => LET w == ga.size[1]
               h == ga.size[2]
               p == gres.p
               flipx == gres.pivot \in {"TopRight", "BottomRight"}
               flipy == gres.pivot \in {"TopLeft", "TopRight"}
           IN  /\ gres.q[1] = IF flipx THEN w - 1 - p[1] ELSE p[1]
               /\ gres.q[2] = IF flipy THEN h - 1 - p[2] ELSE p[2]
               /\ in_bounds(ga, gres.q)
               /\ gres.back = p

\* The local origin of the top-right pivot of a 3 x 2 grid is its cell (2, 1).
C25_Witness ==
    /\ gop = "transform_point"
    /\ gres.pivot = "TopRight"
    /\ ga.size = <<3, 2>>
    /\ gres.p = <<1, 0>>
    /\ gres.q = <<1, 1>>
    /\ gres.back = <<1, 0>>

(***************************************************************************)
(* C26: one center convention: for every point c and size s with           *)
(* components >= 1, odd or even, from_pivot_pos(Pivot::Center, c, s) =     *)
(* from_center_size(c, s), and for that rect center() =                    *)
(* pivot_point(Pivot::Center) = c.                                         *)
(***************************************************************************)
C26_OneCenterConvention ==
    (gop = "from_pivot_pos" /\ gres.pivot = "Center" /\ Positive(ga))
        => /\ gres.rect = gres.by_center
           /\ gres.center = ga.xy
           /\ gres.pivot_center = ga.xy

(***************************************************************************)
(* C27: for every center c and radius R >= 0 the GridCircleOutline         *)
(* iterator processes k = 0, 1, ..., floor((R + 0.5) / sqrt(2)) in         *)
(* ascending order and for each k emits exactly the 8 points c + (-d, k),  *)
(* (d, k), (-d, -k), (d, -k), (k, -d), (k, d), (-k, -d), (-k, d) with      *)
(* d = floor(sqrt((R + 0.5)^2 - k^2)), duplicates kept: it yields          *)
(* 8 * (floor((R + 0.5) / sqrt(2)) + 1) items, and every yielded cell q    *)
(* has |q - c|^2 <= (R + 0.5)^2.                                           *)
(***************************************************************************)
\* floor((R + 0.5) / sqrt(2)): the largest e with 2 * e^2 <= (R + 0.5)^2.
LastRing(R) ==
    CHOOSE e \in 0..(R + 1) :
        /\ 8 * e * e <= (2 * R + 1) * (2 * R + 1)
        /\ 8 * (e + 1) * (e + 1) > (2 * R + 1) * (2 * R + 1)

\* floor(sqrt((R + 0.5)^2 - k^2)): the largest d with d^2 + k^2 <= (R + 0.5)^2.
HalfChord(R, k) ==
    CHOOSE d \in 0..(R + 1) :
        /\ 4 * (d * d + k * k) <= (2 * R + 1) * (2 * R + 1)
        /\ 4 * ((d + 1) * (d + 1) + k * k) > (2 * R + 1) * (2 * R + 1)

EightPoints(c, d, k) ==
    <<<<c[1] - d, c[2] + k>>, <<c[1] + d, c[2] + k>>,
      <<c[1] - d, c[2] - k>>, <<c[1] + d, c[2] - k>>,
      <<c[1] + k, c[2] - d>>, <<c[1] + k, c[2] + d>>,
      <<c[1] - k, c[2] - d>>, <<c[1] - k, c[2] + d>>>>

C27_OutlineEightPoints ==
    (shape.kind = "CircleOutline" /\ after = 0)
        => LET c == shape.center
               R == shape.radius
           IN  /\ Len(out) <= 8 * (LastRing(R) + 1)
               /\ Exhausted => Len(out) = 8 * (LastRing(R) + 1)
               /\ \A i \in 1..Len(out) :
                      LET k == (i - 1) \div 8
                      IN  /\ out[i] = EightPoints(c, HalfChord(R, k), k)[((i - 1) % 8) + 1]
                          /\ 4 * (  (out[i][1] - c[1]) * (out[i][1] - c[1])
                                  + (out[i][2] - c[2]) * (out[i][2] - c[2]))
                                 <= (2 * R + 1) * (2 * R + 1)

\* The outline of radius 2 has the two rings k = 0 and k = 1: 16 items.
C27_Witness ==
    /\ shape.kind = "CircleOutline"
    /\ shape.radius = 2
    /\ shape.center = <<-1, 1>>
    /\ Exhausted
    /\ after = 0
    /\ Len(out) = 16
    /\ out[1] = <<-3, 1>>
    /\ out[16] = <<-2, 3>>

(***************************************************************************)
(* C28: with T the three corners returned by GridCone::corners(), the      *)
(* cone iterator yields, in row-major order over the inclusive bounding    *)
(* box of T and each once, exactly the cells p whose three edge cross      *)
(* products sign(p, T0, T1), sign(p, T1, T2), sign(p, T2, T0) do not hold  *)
(* both a strictly negative and a strictly positive value; so the cells    *)
(* on an edge and the three corners (the cone origin included, also when   *)
(* the range is 0) are yielded.                                            *)
(***************************************************************************)
Cross(p, a, b) ==
    (p[1] - b[1]) * (a[2] - b[2]) - (a[1] - b[1]) * (p[2] - b[2])

NotBothSigns(p, T) ==
    LET ds == {Cross(p, T[1], T[2]), Cross(p, T[2], T[3]), Cross(p, T[3], T[1])}
    IN  ~((\E d \in ds : d < 0) /\ (\E d \in ds : d > 0))

ConeExpected(T) ==
    LET lo == <<Min2(Min2(T[1][1], T[2][1]), T[3][1]),
                Min2(Min2(T[1][2], T[2][2]), T[3][2])>>
        hi == <<Max2(Max2(T[1][1], T[2][1]), T[3][1]),
                Max2(Max2(T[1][2], T[2][2]), T[3][2])>>
        box == [xy |-> lo, size |-> <<hi[1] - lo[1] + 1, hi[2] - lo[2] + 1>>]
        Test(p) == NotBothSigns(p, T)
    IN  SelectSeq(RowMajor(box), Test)

C28_ConeCells ==
    (shape.kind = "Cone" /\ after = 0)
        => LET T == calc_triangle_points(shape.pos, shape.dir, shape.scale)
           IN  /\ IsPrefix(out, ConeExpected(T))
               /\ NoDup(out)
               /\ Exhausted =>
                     /\ out = ConeExpected(T)
                     /\ \A k \in 1..3 : T[k] \in SeqToSet(out)

\* A right-angled cone of range 2 pointing right: the corners and the cells
\* on its edges are among its 9 cells.
C28_Witness ==
    /\ shape = [kind |-> "Cone", pos |-> <<0, 0>>, dir |-> <<2, 0>>,
                scale |-> <<1, 1>>]
    /\ Exhausted
    /\ after = 0
    /\ Len(out) = 9
    /\ {<<0, 0>>, <<2, 2>>, <<2, -2>>, <<1, 1>>, <<1, -1>>} \subseteq SeqToSet(out)

(***************************************************************************)
(* C29: exhaustion is stable for every shape iterator: once next() has     *)
(* returned None, every later next() call returns None as well; it         *)
(* neither panics nor yields a further cell.                               *)
(***************************************************************************)
C29_ExhaustionStable ==
    [][ret.tag = "None" => ret'.tag = "None" /\ out' = out]_vars

(***************************************************************************)
(* GridCircle::contains, probed once a GridCircle has been iterated to     *)
(* its first None: gres keeps the probed cell, the answer of contains and  *)
(* the cells the iteration yielded.                                        *)
(***************************************************************************)
\* GridCircle::contains
circle_contains(sh, point) ==
    LET p == VSub(point, sh.center)
        dist_sq == p[1] * p[1] + p[2] * p[2]
    IN  dist_sq <= sh.radius * sh.radius

\* The cells probed: the square of half side radius + 1 around the center.
CircleProbes(sh) ==
    {<<sh.center[1] + x, sh.center[2] + y>> :
        x \in (-(sh.radius + 1))..(sh.radius + 1),
        y \in (-(sh.radius + 1))..(sh.radius + 1)}

CircleContains ==
    /\ gop = "none"
    /\ shape.kind = "Circle"
    /\ FirstNone
    /\ \E p \in CircleProbes(shape) :
           gres' = [p |-> p,
                    inside |-> circle_contains(shape, p),
                    yielded |-> SeqToSet(out)]
    /\ gop' = "contains"
    /\ UNCHANGED <<iterVars, ga, gb>>

NextCircleContains == CircleContains \/ NextShapes

SpecCircleContains == InitShapes /\ [][NextCircleContains]_vars

(***************************************************************************)
(* C30: GridCircle's membership test agrees with its enumeration: for      *)
(* every center c, radius r >= 0 and cell p, GridCircle::new(c, r)         *)
(* .contains(p) is true if and only if p is one of the cells yielded by    *)
(* GridCircle::new(c, r).iter().                                           *)
(***************************************************************************)
C30_ContainsAgreesWithIter ==
    (gop = "contains" /\ shape.kind = "Circle")
        => (gres.inside <=> gres.p \in gres.yielded)

====
